---------------------------- MODULE Spec2Model ----------------------------
(***************************************************************************)
(* ExamPrep API (src/main.py): the in-memory catalog TOPICS and the five   *)
(* request handlers root, health, list_topics, get_samples and solve.      *)
(*                                                                         *)
(* A request is received, handled by exactly one handler, and answered.    *)
(* JSON values are tagged records; Python's int(), float(), len(), repr()  *)
(* and the format specs of the f-strings are modelled by what they do on   *)
(* those values, exceptions included (an exception that no handler code    *)
(* catches leaves the handler and is answered with HTTP 500).              *)
(***************************************************************************)
EXTENDS Integers, Sequences, FiniteSets, TLC

VARIABLES TOPICS, pc, req, resp, earlier

vars == <<TOPICS, pc, req, resp, earlier>>

-----------------------------------------------------------------------------
(* Bounds of the enumerated request payloads.                              *)

\* red and blue range over -2 .. MaxBalls
MaxBalls == 4
\* coordinates range over -1 .. MaxCoord
MaxCoord == 2
\* the coefficients a and b range over -1 .. MaxCoef
MaxCoef == 3
\* the entries of well-formed 2x2 grids range over 0 .. MaxEntry
MaxEntry == 2

-----------------------------------------------------------------------------
(* JSON / Python values.                                                   *)

Abs(n) == IF n < 0 THEN -n ELSE n

RECURSIVE GCD(_, _)
GCD(a, b) == IF b = 0 THEN a ELSE GCD(b, a % b)

JNull == [t |-> "null"]
JInt(n) == [t |-> "int", v |-> n]
JStr(s) == [t |-> "str", s |-> s]
JList(items) == [t |-> "list", items |-> items]

\* A Python float.  The value is e * 1e200 + num/den, num/den in lowest
\* terms with den > 0.  A double holding a multiple of 1e200 absorbs every
\* small addend (1e200 - 1 == 1e200), so e # 0 forces num/den = 0/1.
\* nz marks the negative zero, -0.0.
JFloat(e, num, den) ==
    IF e # 0 THEN [t |-> "float", e |-> e, num |-> 0, den |-> 1, nz |-> FALSE]
    ELSE LET g == GCD(Abs(num), Abs(den))
             s == IF den < 0 THEN -1 ELSE 1
         IN  [t |-> "float", e |-> 0, num |-> s * (num \div g), den |-> s * (den \div g),
              nz |-> FALSE]

\* -0.0
NegZero == [t |-> "float", e |-> 0, num |-> 0, den |-> 1, nz |-> TRUE]

\* The JSON number 1e200.
Big == JFloat(1, 0, 1)
\* The JSON number 0.5.
Half == JFloat(0, 1, 2)

\* A value that is not a real number with a double closest to it that the
\* model writes exactly: the positive square root of a non-square rational.
JSurd(num, den) == [t |-> "surd", num |-> num, den |-> den]

\* The outcome of an expression: a value, or the exception it raises.
Val(v) == [exc |-> "none", v |-> v]
Raise(name) == [exc |-> name, v |-> JNull]

\* dict.get(key, default) on a JSON object (a function from its keys)
Get(data, key, default) == IF key \in DOMAIN data THEN data[key] ELSE default

\* int(x): an int is itself, a float is truncated toward zero, None and a
\* list raise TypeError.  (int(1e200) is a 201-digit integer; no request of
\* the model passes 1e200 to int().)
py_int(x) ==
    CASE x.t = "int" -> Val(x.v)
      [] x.t = "float" ->
            Val(IF x.num < 0 THEN -((-x.num) \div x.den) ELSE x.num \div x.den)
      [] OTHER -> Raise("TypeError")

\* float(x): an int becomes the float of the same value, a float is itself,
\* None and a list raise TypeError.
py_float(x) ==
    CASE x.t = "int" -> Val(JFloat(0, x.v, 1))
      [] x.t = "float" -> Val(x)
      [] OTHER -> Raise("TypeError")

\* x - y on floats
float_sub(x, y) ==
    IF x.e # 0 \/ y.e # 0
    THEN JFloat(x.e - y.e, 0, 1)
    ELSE JFloat(0, x.num * y.den - y.num * x.den, x.den * y.den)

\* x + y on finite small floats
float_add(x, y) == JFloat(0, x.num * y.den + y.num * x.den, x.den * y.den)

\* n * x for an int n and a float x
float_scale(n, x) == IF x.e # 0 THEN JFloat(n * x.e, 0, 1) ELSE JFloat(0, n * x.num, x.den)

\* x ** 2 on a float: float_pow raises OverflowError when the result is
\* outside the range of a double, and (1e200) ** 2 is.
float_pow2(x) ==
    IF x.e # 0 THEN Raise("OverflowError")
    ELSE Val(JFloat(0, x.num * x.num, x.den * x.den))

\* floor(sqrt(n)) for n >= 0
RECURSIVE ISqrtBin(_, _, _)
ISqrtBin(n, lo, hi) ==
    IF lo >= hi THEN lo
    ELSE LET mid == (lo + hi + 1) \div 2
         IN  IF mid * mid <= n THEN ISqrtBin(n, mid, hi) ELSE ISqrtBin(n, lo, mid - 1)

ISqrt(n) == ISqrtBin(n, 0, IF n < 46340 THEN n ELSE 46340)

IsSquare(n) == ISqrt(n) * ISqrt(n) = n

\* x ** 0.5 on a finite float x >= 0: exact when x is the square of a
\* rational, otherwise the double nearest to an irrational root.
float_sqrt(x) ==
    IF IsSquare(x.num) /\ IsSquare(x.den)
    THEN JFloat(0, ISqrt(x.num), ISqrt(x.den))
    ELSE JSurd(x.num, x.den)

-----------------------------------------------------------------------------
(* str(), repr() and the ".3f" format spec.                                *)

Digit(d) == <<"0", "1", "2", "3", "4", "5", "6", "7", "8", "9">>[d + 1]

RECURSIVE NatStr(_)
NatStr(n) == IF n < 10 THEN Digit(n) ELSE NatStr(n \div 10) \o Digit(n % 10)

\* str(n) of an int, as "{n}" in an f-string renders it
IntStr(n) == IF n < 0 THEN "-" \o NatStr(-n) ELSE NatStr(n)

\* repr(x) of a float, as "{x}" in an f-string renders it: a whole number
\* keeps its ".0", a multiple of 1e200 is written in exponent notation.
\* (Every float the handlers print is a multiple of 1/2 or of 1e200.)
py_repr_float(x) ==
    CASE x.e # 0 -> IntStr(x.e) \o "e+200"
      [] x.e = 0 /\ x.den = 1 -> (IF x.nz THEN "-" ELSE "") \o IntStr(x.num) \o ".0"
      [] x.e = 0 /\ x.den = 2 ->
            (IF x.num < 0 THEN "-" ELSE "") \o NatStr(Abs(x.num) \div 2) \o ".5"

Pad3(n) == Digit(n \div 100) \o Digit((n \div 10) % 10) \o Digit(n % 10)

\* thousandths as sign, integer part, point and three digits
Thousandths(neg, k) ==
    (IF neg THEN "-" ELSE "") \o NatStr(k \div 1000) \o "." \o Pad3(k % 1000)

\* "{x:.3f}": x rounded to three decimals, an exact tie to the even digit.
Fmt3(x) ==
    IF x.t = "surd"
    THEN LET r == ISqrt((x.num * 1000000) \div x.den)
             up == 4 * x.num * 1000000 >= x.den * (4 * r * r + 4 * r + 1)
         IN  Thousandths(FALSE, IF up THEN r + 1 ELSE r)
    ELSE LET scaled == Abs(x.num) * 1000
             q == scaled \div x.den
             rem == scaled % x.den
             k == IF 2 * rem > x.den \/ (2 * rem = x.den /\ q % 2 = 1) THEN q + 1 ELSE q
         IN  Thousandths(x.num < 0 \/ x.nz, k)

-----------------------------------------------------------------------------
(* Responses.                                                              *)

\* a handler's return value, sent with status 200
Ok(body) == [status |-> 200, body |-> body]

\* raise HTTPException(status_code=status, detail=detail)
HTTPException(status, detail) == [status |-> status, detail |-> detail]

\* an exception the handler does not catch: the server answers 500
Unhandled(exc) == [status |-> 500, detail |-> "Internal Server Error", exc |-> exc]

NoReq == [op |-> "none"]
NoResp == [status |-> 0]

-----------------------------------------------------------------------------
(* The catalog.                                                            *)

\* TOPICS as constructed: a dict keeps its keys in insertion order, so the
\* catalog is the sequence of its entries.  (The centred dot of "A.B" in
\* mat-1's question is written "." here.)
Catalog ==
    << [id |-> "probability",
        description |-> "Basics: equally likely outcomes, simple probabilities, complementary events.",
        samples |-> << [id |-> "prob-1",
                        question |-> "A bag contains 3 red and 2 blue balls. What is P(red)?",
                        data |-> [red |-> JInt(3), blue |-> JInt(2)],
                        expected |-> "3/5"] >>],
       [id |-> "coordinate-geometry",
        description |-> "Distance, midpoint, gradients, equation of a line.",
        samples |-> << [id |-> "coord-1",
                        question |-> "Find the distance between (1,2) and (4,6).",
                        data |-> [x1 |-> JInt(1), y1 |-> JInt(2), x2 |-> JInt(4), y2 |-> JInt(6)],
                        expected |-> "5"] >>],
       [id |-> "calculus",
        description |-> "Derivatives and basic integrals.",
        samples |-> << [id |-> "calc-1",
                        question |-> "Differentiate f(x) = 2x^2 + 3x + 1.",
                        data |-> [a |-> JInt(2), b |-> JInt(3), c |-> JInt(1)],
                        expected |-> "f'(x) = 4x + 3"] >>],
       [id |-> "matrices",
        description |-> "2x2 addition and multiplication.",
        samples |-> << [id |-> "mat-1",
                        question |-> "Compute A.B where A=[[1,2],[3,4]], B=[[2,0],[1,2]].",
                        data |-> [A |-> JList(<<JList(<<JInt(1), JInt(2)>>), JList(<<JInt(3), JInt(4)>>)>>),
                                  B |-> JList(<<JList(<<JInt(2), JInt(0)>>), JList(<<JInt(1), JInt(2)>>)>>)],
                        expected |-> "[[4, 4], [10, 8]]"] >>] >>

\* list(T.keys())
Keys(T) == [i \in 1 .. Len(T) |-> T[i].id]

\* topic in T
HasKey(T, topic) == \E i \in 1 .. Len(T) : T[i].id = topic

\* T[topic]
Lookup(T, topic) == T[CHOOSE i \in 1 .. Len(T) : T[i].id = topic]

\* SolveRequest.topic: the Literal of the four topic names
TopicLiteral == {"probability", "coordinate-geometry", "calculus", "matrices"}

-----------------------------------------------------------------------------
(* solve: the four evaluators.                                             *)

\* data = req.data or {}: None and the empty object both give {}
data_or_empty(d) == IF d.t = "null" THEN <<>> ELSE d.items

\* x // y on ints, as a float
floor_div(x, y) == JFloat(0, x \div y, 1)

\* x / y on ints, y # 0: the float of the quotient; 0 / y is -0.0 for y < 0
true_div(x, y) == IF x = 0 /\ y < 0 THEN NegZero ELSE JFloat(0, x, y)

\* topic == "probability"
solve_probability(data) ==
    LET r == py_int(Get(data, "red", JInt(0)))
        b == py_int(Get(data, "blue", JInt(0)))
    IN  IF r.exc # "none" THEN Unhandled(r.exc)
        ELSE IF b.exc # "none" THEN Unhandled(b.exc)
        ELSE LET red == r.v
                 blue == b.v
                 total == red + blue
             IN  IF total = 0
                 THEN HTTPException(400, "Total number of balls must be > 0")
                 ELSE LET prob_red == true_div(red, total)
                          steps ==
                            << "Identify total outcomes: total = red + blue",
                               "Compute total = " \o IntStr(red) \o " + " \o IntStr(blue)
                                   \o " = " \o IntStr(total),
                               "Probability of red = red / total",
                               "P(red) = " \o IntStr(red) \o "/" \o IntStr(total)
                                   \o " = " \o Fmt3(prob_red) >>
                      IN  Ok([topic |-> "probability", result |-> prob_red, steps |-> steps])

\* topic == "coordinate-geometry"
solve_coordinate_geometry(data) ==
    LET fx1 == py_float(Get(data, "x1", JInt(0)))
        fy1 == py_float(Get(data, "y1", JInt(0)))
        fx2 == py_float(Get(data, "x2", JInt(0)))
        fy2 == py_float(Get(data, "y2", JInt(0)))
    IN  IF fx1.exc # "none" THEN Unhandled(fx1.exc)
        ELSE IF fy1.exc # "none" THEN Unhandled(fy1.exc)
        ELSE IF fx2.exc # "none" THEN Unhandled(fx2.exc)
        ELSE IF fy2.exc # "none" THEN Unhandled(fy2.exc)
        ELSE LET x1 == fx1.v
                 y1 == fy1.v
                 x2 == fx2.v
                 y2 == fy2.v
                 dx == float_sub(x2, x1)
                 dy == float_sub(y2, y1)
                 dx2 == float_pow2(dx)
                 dy2 == float_pow2(dy)
             IN  IF dx2.exc # "none" THEN Unhandled(dx2.exc)
                 ELSE IF dy2.exc # "none" THEN Unhandled(dy2.exc)
                 ELSE LET distance == float_sqrt(float_add(dx2.v, dy2.v))
                          steps ==
                            << "Use distance formula: d = sqrt((x2-x1)^2 + (y2-y1)^2)",
                               "dx = " \o py_repr_float(x2) \o " - " \o py_repr_float(x1)
                                   \o " = " \o py_repr_float(dx),
                               "dy = " \o py_repr_float(y2) \o " - " \o py_repr_float(y1)
                                   \o " = " \o py_repr_float(dy),
                               "d = sqrt(" \o Fmt3(dx2.v) \o " + " \o Fmt3(dy2.v)
                                   \o ") = " \o Fmt3(distance) >>
                      IN  Ok([topic |-> "coordinate-geometry", result |-> distance,
                              steps |-> steps])

\* topic == "calculus": ax^2 + bx + c -> 2ax + b; c is never read
solve_calculus(data) ==
    LET fa == py_float(Get(data, "a", JInt(0)))
        fb == py_float(Get(data, "b", JInt(0)))
    IN  IF fa.exc # "none" THEN Unhandled(fa.exc)
        ELSE IF fb.exc # "none" THEN Unhandled(fb.exc)
        ELSE LET a == fa.v
                 b == fb.v
                 derivative == "f'(x) = " \o py_repr_float(float_scale(2, a)) \o "x + "
                                   \o py_repr_float(b)
                 steps == << "Differentiate ax^2 -> 2ax",
                             "Differentiate bx -> b",
                             "Sum results",
                             derivative >>
             IN  Ok([topic |-> "calculus", result |-> JStr(derivative), steps |-> steps])

\* all(len(row) == 2 for row in rows): the rows are visited in order, the
\* first row whose length is not 2 ends the scan with False, and len() of a
\* row that has no length raises TypeError.
RECURSIVE all_rows_len2(_)
all_rows_len2(rows) ==
    IF rows = <<>> THEN Val(TRUE)
    ELSE IF Head(rows).t # "list" THEN Raise("TypeError")
    ELSE IF Len(Head(rows).items) # 2 THEN Val(FALSE)
    ELSE all_rows_len2(Tail(rows))

\* the product of two ints
py_mul(x, y) == x.v * y.v

\* M[i][j]
entry(M, i, j) == M.items[i + 1].items[j + 1]

\* the entrywise product A[i][j]*B[i][j]
cell_entrywise(A, B, i, j) == py_mul(entry(A, i, j), entry(B, i, j))

\* c(i+1)(j+1) = A[i][0]*B[0][j] + A[i][1]*B[1][j]
cell(A, B, i, j) ==
    py_mul(entry(A, i, 0), entry(B, 0, j)) + py_mul(entry(A, i, 1), entry(B, 1, j))

\* topic == "matrices"
solve_matrices(data) ==
    LET A == Get(data, "A", JNull)
        B == Get(data, "B", JNull)
    IN  IF ~(A.t = "list" /\ B.t = "list")
        THEN HTTPException(400, "A and B must be 2x2 lists")
        ELSE
        LET lens == Len(A.items) = Len(B.items) /\ Len(B.items) = 2
            rowsA == IF lens THEN all_rows_len2(A.items) ELSE Val(FALSE)
            rowsB == IF rowsA.exc = "none" /\ rowsA.v
                     THEN all_rows_len2(B.items) ELSE Val(FALSE)
        IN  IF rowsA.exc # "none" THEN Unhandled(rowsA.exc)
            ELSE IF rowsB.exc # "none" THEN Unhandled(rowsB.exc)
            ELSE IF ~(lens /\ rowsA.v /\ rowsB.v)
            THEN HTTPException(400, "Only 2x2 matrices are supported in this demo")
            ELSE
            LET a(i, j) == entry(A, i, j)
                b(i, j) == entry(B, i, j)
                c11 == cell(A, B, 0, 0)
                c12 == cell(A, B, 0, 1)
                c21 == cell(A, B, 1, 0)
                c22 == cell(A, B, 1, 1)
                C == JList(<< JList(<<JInt(c11), JInt(c12)>>),
                              JList(<<JInt(c21), JInt(c22)>>) >>)
                term(p, q, r, s, c) ==
                    IntStr(p.v) \o "*" \o IntStr(q.v) \o " + " \o IntStr(r.v) \o "*"
                        \o IntStr(s.v) \o " = " \o IntStr(c)
                steps ==
                    << "Compute C = A.B for 2x2 matrices",
                       "c11 = " \o term(a(0, 0), b(0, 0), a(0, 1), b(1, 0), c11),
                       "c12 = " \o term(a(0, 0), b(0, 1), a(0, 1), b(1, 1), c12),
                       "c21 = " \o term(a(1, 0), b(0, 0), a(1, 1), b(1, 0), c21),
                       "c22 = " \o term(a(1, 0), b(0, 1), a(1, 1), b(1, 1), c22) >>
            IN  Ok([topic |-> "matrices", result |-> C, steps |-> steps])

\* a dispatch with no branch for "matrices"
solve_three_topics(r) ==
    LET topic == r.topic
        data == data_or_empty(r.data)
    IN  IF topic = "probability" THEN solve_probability(data)
        ELSE IF topic = "coordinate-geometry" THEN solve_coordinate_geometry(data)
        ELSE IF topic = "calculus" THEN solve_calculus(data)
        ELSE HTTPException(400, "Unsupported topic")

\* the payload of the sample that sample_id names, when the request carries
\* no data
data_or_sample(r) ==
    IF r.data.t = "null" /\ r.sample_id.t = "str" /\ HasKey(Catalog, r.topic)
    THEN LET samples == Lookup(Catalog, r.topic).samples
             hit == {i \in 1 .. Len(samples) : samples[i].id = r.sample_id.s}
         IN  IF hit = {} THEN <<>> ELSE samples[CHOOSE i \in hit : TRUE].data
    ELSE data_or_empty(r.data)

\* data = req.data or {}
solve_request_data(r) == data_or_empty(r.data)

\* solve(req): the dispatch on req.topic; sample_id is never read
solve(r) ==
    LET topic == r.topic
        data == solve_request_data(r)
    IN  IF topic = "probability" THEN solve_probability(data)
        ELSE IF topic = "coordinate-geometry" THEN solve_coordinate_geometry(data)
        ELSE IF topic = "calculus" THEN solve_calculus(data)
        ELSE IF topic = "matrices" THEN solve_matrices(data)
        ELSE HTTPException(400, "Unsupported topic")

\* the SolveRequest model: a body whose topic is not one of the Literal's
\* values is refused (422) before solve runs
SolveRequest(r) == r.topic \in TopicLiteral

\* the keys but the last
list_topics_short(T) == [topics |-> [i \in 1 .. Len(T) - 1 |-> T[i].id]]

\* list_topics()
list_topics_body(T) == [topics |-> Keys(T)]

\* a lookup with a default, TOPICS.get(topic, {}), in place of the 404
get_samples_lenient(T, topic) ==
    IF ~HasKey(T, topic)
    THEN Ok([topic |-> topic, description |-> "", samples |-> <<>>])
    ELSE LET bucket == Lookup(T, topic)
         IN  Ok([topic |-> topic, description |-> bucket.description,
                 samples |-> bucket.samples])

\* get_samples(topic)
get_samples_response(T, topic) ==
    IF ~HasKey(T, topic) THEN HTTPException(404, "Unknown topic")
    ELSE LET bucket == Lookup(T, topic)
         IN  Ok([topic |-> topic, description |-> bucket.description,
                 samples |-> bucket.samples])

-----------------------------------------------------------------------------
(* The requests a client sends.                                            *)

JDict(f) == [t |-> "dict", items |-> f]

\* a key the payload does not hold
Absent == [t |-> "absent"]

\* the JSON object holding the keys of f that are not Absent
Present(f) == [k \in {j \in DOMAIN f : f[j] # Absent} |-> f[k]]

Ints(lo, hi) == {JInt(n) : n \in lo .. hi}

Row(x, y) == JList(<<JInt(x), JInt(y)>>)
Row3(x, y, z) == JList(<<JInt(x), JInt(y), JInt(z)>>)

\* the well-formed 2x2 grids
Grids ==
    {JList(<<Row(p, q), Row(r, s)>>) : p \in 0 .. MaxEntry, q \in 0 .. MaxEntry,
                                        r \in 0 .. MaxEntry, s \in 0 .. MaxEntry}

\* values of A or B that are not 2x2 grids
Malformed ==
    { JNull, JInt(5),
      JList(<<>>),
      JList(<<JInt(1), JInt(2)>>),
      JList(<<JInt(1), JInt(2), JInt(3)>>),
      JList(<<Row(1, 2)>>),
      JList(<<Row(1, 2), Row(3, 4), Row(5, 6)>>),
      JList(<<Row3(1, 2, 3), Row3(4, 5, 6)>>),
      JList(<<Row(1, 2), JList(<<JInt(3)>>)>>),
      JList(<<Row3(1, 2, 3), JInt(5)>>),
      JList(<<Row(1, 2), JInt(5)>>),
      JList(<<Row(1, 2), JNull>>) }

\* the keys of the payloads enumerated for a topic
FieldsOf(topic) ==
    CASE topic = "probability" -> {"red", "blue"}
      [] topic = "coordinate-geometry" -> {"x1", "y1", "x2", "y2"}
      [] topic = "calculus" -> {"a", "b", "c"}
      [] topic = "matrices" -> {"A", "B"}
      [] OTHER -> {}

\* the values a key of such a payload takes
ValuesOf(topic) ==
    CASE topic = "probability" -> Ints(-2, MaxBalls) \cup {Half, JNull}
      [] topic = "coordinate-geometry" -> Ints(-1, MaxCoord) \cup {Half, Big, JNull}
      [] topic = "calculus" -> Ints(-1, MaxCoef) \cup {Half, Big, JNull}
      [] topic = "matrices" -> Grids \cup Malformed
      [] OTHER -> {}

\* a small set of keys and values per topic, for runs that compare two calls
FewFieldsOf(topic) ==
    CASE topic = "probability" -> {"red", "blue"}
      [] topic = "coordinate-geometry" -> {"x2", "y2"}
      [] topic = "calculus" -> {"a", "b"}
      [] topic = "matrices" -> {"A", "B"}
      [] OTHER -> {}

FewValuesOf(topic) ==
    CASE topic = "probability" -> {JInt(0), JInt(1)}
      [] topic = "coordinate-geometry" -> {JInt(1), Big}
      [] topic = "calculus" -> {JInt(2), JNull}
      [] topic = "matrices" -> {JList(<<Row(1, 0), Row(0, 1)>>), JList(<<JInt(1), JInt(2)>>)}
      [] OTHER -> {}

\* the data payloads of the samples the catalog lists under a topic
SampleData(T, topic) ==
    IF HasKey(T, topic)
    THEN {Lookup(T, topic).samples[i].data : i \in 1 .. Len(Lookup(T, topic).samples)}
    ELSE {}

\* the ids of the samples the catalog lists under a topic
SampleIds(T, topic) ==
    IF HasKey(T, topic)
    THEN {Lookup(T, topic).samples[i].id : i \in 1 .. Len(Lookup(T, topic).samples)}
    ELSE {}

\* the sample_id of a POST /solve body: absent or the id of a sample of the
\* topic; in the small runs also the id of a sample of another topic and an
\* id of no sample
SidsOf(T, topic, few) ==
    {JNull} \cup {JStr(i) : i \in SampleIds(T, topic)}
        \cup (IF few THEN {JStr("unknown"), JStr("prob-1")} ELSE {})

Call(op, topic, sample_id, data) ==
    [op |-> op, topic |-> topic, sample_id |-> sample_id, data |-> data]

-----------------------------------------------------------------------------
(* The handlers.                                                           *)

NoCall == [topic |-> "none"]

Init ==
    /\ TOPICS = Catalog
    /\ pc = "idle"
    /\ req = NoReq
    /\ resp = NoResp
    /\ earlier = NoCall

\* a client sends a request: GET /, /health, /topics or /samples/{topic},
\* or POST /solve with no data, an enumerated payload or a sample's payload
Request(few) ==
    /\ pc = "idle"
    /\ \/ \E op \in {"root", "health", "list_topics"} :
            req' = Call(op, "", JNull, JNull)
       \/ \E topic \in TopicLiteral \cup {"unknown", "", "Probability", "matrix"} :
            req' = Call("get_samples", topic, JNull, JNull)
       \/ \E topic \in TopicLiteral \cup {"algebra"} :
            \E sid \in SidsOf(TOPICS, topic, few) :
                \/ req' = Call("solve", topic, sid, JNull)
                \/ \E d \in SampleData(TOPICS, topic) :
                        req' = Call("solve", topic, sid, JDict(d))
                \/ \E f \in [(IF few THEN FewFieldsOf(topic) ELSE FieldsOf(topic)) ->
                                (IF few THEN FewValuesOf(topic) ELSE ValuesOf(topic))
                                    \cup {Absent}] :
                        req' = Call("solve", topic, sid, JDict(Present(f)))
    /\ pc' = "received"
    /\ UNCHANGED <<TOPICS, resp, earlier>>

\* GET /
root ==
    /\ pc = "received" /\ req.op = "root"
    /\ resp' = Ok([message |-> "Welcome to ExamPrep API for GCSE & HKDSE (minimal demo)."])
    /\ pc' = "done"
    /\ UNCHANGED <<TOPICS, req, earlier>>

\* GET /health
health ==
    /\ pc = "received" /\ req.op = "health"
    /\ resp' = Ok([status |-> "ok"])
    /\ pc' = "done"
    /\ UNCHANGED <<TOPICS, req, earlier>>

\* GET /topics
list_topics ==
    /\ pc = "received" /\ req.op = "list_topics"
    /\ resp' = Ok(list_topics_body(TOPICS))
    /\ pc' = "done"
    /\ UNCHANGED <<TOPICS, req, earlier>>

\* GET /samples/{topic}
get_samples ==
    /\ pc = "received" /\ req.op = "get_samples"
    /\ resp' = get_samples_response(TOPICS, req.topic)
    /\ pc' = "done"
    /\ UNCHANGED <<TOPICS, req, earlier>>

\* POST /solve
post_solve ==
    /\ pc = "received" /\ req.op = "solve"
    /\ resp' = IF SolveRequest(req) THEN solve(req)
               ELSE HTTPException(422, "Input should be one of the topic names")
    /\ pc' = "done"
    /\ UNCHANGED <<TOPICS, req, earlier>>

\* the response is sent; nothing of the call is kept
Return ==
    /\ pc = "done"
    /\ pc' = "idle"
    /\ req' = NoReq
    /\ resp' = NoResp
    /\ UNCHANGED <<TOPICS, earlier>>

\* the client keeps a solve call and its outcome, to compare a later call with
Remember ==
    /\ pc = "done" /\ req.op = "solve"
    /\ earlier' = [topic |-> req.topic, sample_id |-> req.sample_id,
                   data |-> req.data, resp |-> resp]
    /\ UNCHANGED <<TOPICS, pc, req, resp>>

Next ==
    \/ Request(FALSE)
    \/ root
    \/ health
    \/ list_topics
    \/ get_samples
    \/ post_solve
    \/ Return

Spec == Init /\ [][Next]_vars

NextHistory ==
    \/ Request(TRUE)
    \/ root
    \/ health
    \/ list_topics
    \/ get_samples
    \/ post_solve
    \/ Return
    \/ Remember

\* the same handlers, a smaller set of requests, and a remembered solve call
SpecHistory == Init /\ [][NextHistory]_vars

-----------------------------------------------------------------------------
(* Properties.                                                             *)

\* a solve call on the given topic has been answered
Solved(topic) == pc = "done" /\ req.op = "solve" /\ req.topic = topic

\* the payload of the answered request, {} when it carries none
Payload == IF req.data.t = "dict" THEN req.data.items ELSE <<>>

\* the int a key of the payload holds, 0 when the key is absent
IntOf(key) == IF key \in DOMAIN Payload THEN Payload[key].v ELSE 0

\* the keys are absent or hold ints, and the ints satisfy no further condition
IntsAt(keys) == \A k \in keys : k \in DOMAIN Payload => Payload[k].t = "int"

\* the key holds a number (an int or a float) or is absent
NumberAt(key) == key \in DOMAIN Payload => Payload[key].t \in {"int", "float"}

\* v is a list of two lists of two entries each
Is2x2(v) ==
    /\ v.t = "list"
    /\ Len(v.items) = 2
    /\ \A i \in 1 .. 2 : v.items[i].t = "list" /\ Len(v.items[i].items) = 2

\* v is a 2x2 grid of ints
IsIntGrid(v) ==
    /\ Is2x2(v)
    /\ \A i \in 1 .. 2 : \A j \in 1 .. 2 : v.items[i].items[j].t = "int"

\* the value under a key of the payload, None when the key is absent
At(key) == IF key \in DOMAIN Payload THEN Payload[key] ELSE JNull

\* C1: for non-negative integers red, blue (an absent field counts as 0):
\* when red + blue > 0, solve on "probability" answers 200 with
\* result = red / (red + blue); when red = blue = 0 it answers 400 with no
\* result.
C1_ProbabilityQuotient ==
    (Solved("probability") /\ IntsAt({"red", "blue"})
        /\ IntOf("red") >= 0 /\ IntOf("blue") >= 0)
    => IF IntOf("red") + IntOf("blue") > 0
       THEN /\ resp.status = 200
            /\ resp.body.result.t = "float"
            /\ resp.body.result.e = 0
            /\ resp.body.result.den > 0
            /\ resp.body.result.num * (IntOf("red") + IntOf("blue"))
                   = IntOf("red") * resp.body.result.den
       ELSE resp.status = 400 /\ "body" \notin DOMAIN resp

C1_Witness ==
    /\ Solved("probability")
    /\ DOMAIN Payload = {"red", "blue"}
    /\ Payload["red"] = JInt(1) /\ Payload["blue"] = JInt(2)
    /\ resp.status = 200
    /\ resp.body.result = JFloat(0, 1, 3)

C3_MalformedIs400 ==
    (Solved("matrices") /\ (~Is2x2(At("A")) \/ ~Is2x2(At("B"))))
    => resp.status = 400 /\ "body" \notin DOMAIN resp

\* C4: solve on "calculus" with {a:2, b:3, c:1} returns "f'(x) = 4x + 3",
\* the expected answer of sample calc-1, and the last step is that string.
C4_DerivativeString ==
    (Solved("calculus") /\ DOMAIN Payload = {"a", "b", "c"}
        /\ Payload["a"] = JInt(2) /\ Payload["b"] = JInt(3) /\ Payload["c"] = JInt(1))
    => /\ resp.status = 200
       /\ resp.body.result = JStr("f'(x) = 4x + 3")
       /\ resp.body.result.s = Lookup(TOPICS, "calculus").samples[1].expected
       /\ resp.body.steps[Len(resp.body.steps)] = resp.body.result.s

\* the float of the number under a key, 0.0 when the key is absent
FloatAt(key) == py_float(IF key \in DOMAIN Payload THEN Payload[key] ELSE JInt(0)).v

\* the answered request with point 1 and point 2 exchanged
Swapped ==
    [req EXCEPT !.data = JDict([x1 |-> FloatAt("x2"),
                                y1 |-> FloatAt("y2"),
                                x2 |-> FloatAt("x1"),
                                y2 |-> FloatAt("y1")])]

\* the square of a result of the distance evaluator
SquareOf(d) == IF d.t = "surd" THEN JFloat(0, d.num, d.den) ELSE JFloat(0, d.num * d.num, d.den * d.den)

\* C5: for all numbers x1, y1, x2, y2, solve on "coordinate-geometry"
\* answers 200 with a result d >= 0, d^2 = (x2-x1)^2 + (y2-y1)^2, and the
\* same result with the two points exchanged.
C5_DistanceNeverFails ==
    (Solved("coordinate-geometry") /\ \A k \in {"x1", "y1", "x2", "y2"} : NumberAt(k))
    => /\ resp.status = 200
       /\ resp.body.result.num >= 0
       /\ SquareOf(resp.body.result)
            = float_add(float_pow2(float_sub(FloatAt("x2"), FloatAt("x1"))).v,
                        float_pow2(float_sub(FloatAt("y2"), FloatAt("y1"))).v)
       /\ solve(Swapped).status = 200
       /\ solve(Swapped).body.result = resp.body.result

\* the (topic, data) of the answered request is a sample of the catalog
IsSampleCall ==
    /\ pc = "done" /\ req.op = "solve"
    /\ req.data.t = "dict"
    /\ \E i \in 1 .. Len(TOPICS) :
        /\ TOPICS[i].id = req.topic
        /\ \E k \in 1 .. Len(TOPICS[i].samples) : TOPICS[i].samples[k].data = req.data.items

\* C6: solve with a catalog topic and the data of a sample listed under it
\* answers 200 with a result.
C6_SamplesSolve ==
    IsSampleCall => resp.status = 200 /\ "result" \in DOMAIN resp.body

C6_Witness ==
    /\ IsSampleCall
    /\ req.topic = "matrices"
    /\ resp.status = 200
    /\ resp.body.result = JList(<<Row(4, 4), Row(10, 8)>>)

\* C7: whatever calls came before, list_topics returns the four identifiers
\* probability, coordinate-geometry, calculus, matrices, in that order, and
\* the catalog is as constructed.
C7_TopicsStable ==
    /\ TOPICS = Catalog
    /\ (pc = "done" /\ req.op = "list_topics")
        => /\ resp.status = 200
           /\ resp.body.topics = <<"probability", "coordinate-geometry", "calculus", "matrices">>

C7_Witness ==
    /\ pc = "done" /\ req.op = "list_topics"
    /\ earlier.topic = "matrices"
    /\ earlier.resp.status = 400
    /\ resp.status = 200

\* C8: get_samples answers 404 for an identifier that is none of the four
\* topics; for each of the four it answers 200 with that identifier, a
\* description and a non-empty list of samples.
C8_SamplesOrNotFound ==
    (pc = "done" /\ req.op = "get_samples")
    => IF req.topic \in {"probability", "coordinate-geometry", "calculus", "matrices"}
       THEN /\ resp.status = 200
            /\ resp.body.topic = req.topic
            /\ "description" \in DOMAIN resp.body
            /\ Len(resp.body.samples) > 0
       ELSE resp.status = 404 /\ "body" \notin DOMAIN resp

C8_Witness ==
    /\ pc = "done" /\ req.op = "get_samples"
    /\ req.topic = "unknown"
    /\ resp.status = 404

\* C9: two solve calls with equal topic and data have equal outcomes,
\* whatever sample_id each carries and whatever was called in between.
C9_OutcomeOfTopicAndData ==
    (pc = "done" /\ req.op = "solve"
        /\ earlier.topic = req.topic /\ earlier.data = req.data)
    => resp = earlier.resp

C9_Witness ==
    /\ pc = "done" /\ req.op = "solve"
    /\ earlier.topic = req.topic /\ earlier.data = req.data
    /\ req.topic = "calculus"
    /\ req.data = JNull
    /\ earlier.sample_id = JStr("unknown")
    /\ req.sample_id = JStr("calc-1")
    /\ resp.status = 200

\* C10: whenever solve on "probability" answers 200 for integers red and
\* blue, the result lies in [0, 1].
C10_ProbabilityInUnitInterval ==
    (Solved("probability") /\ IntsAt({"red", "blue"}) /\ resp.status = 200)
    => /\ 0 <= resp.body.result.num
       /\ resp.body.result.num <= resp.body.result.den

=============================================================================
